---- MODULE Spec2Model ----
(***************************************************************************)
(* Model of src/app.py (Lead Email Splitter): parse_email_array,           *)
(* process_csv and the part of main that decides whether process_csv runs. *)
(*                                                                         *)
(* Text is a sequence of one-character strings.  A Python value is a       *)
(* record [t |-> type name, v |-> sequence]: for "str" and the number      *)
(* types v is the sequence of characters, for "list", "tuple", "set" v is  *)
(* the sequence of elements in iteration order, for "dict" v is the        *)
(* sequence of keys in iteration order (iterating a dict yields its keys,  *)
(* and neither len nor explode look at the values).                        *)
(***************************************************************************)
EXTENDS Integers, Sequences, FiniteSets, TLC

\* ------------------------------------------------------------------------
\* Bounds
\* ------------------------------------------------------------------------
MaxRows == 2
MaxTokens == 2

\* ------------------------------------------------------------------------
\* Characters
\* ------------------------------------------------------------------------
Letters == {"a", "c", "e", "n", "o", "N"}
Digits == {"5"}
\* the characters matched by \w
WordChars == Letters \cup Digits
\* the characters matched by [\w\.-]
EmailClass == WordChars \cup {".", "-"}

\* ------------------------------------------------------------------------
\* Python values
\* ------------------------------------------------------------------------
PyVal(t, v) == [t |-> t, v |-> v]
PyStr(chars) == PyVal("str", chars)
EmptyList == PyVal("list", << >>)
\* float('nan'), the null cell of a DataFrame
NaN == PyVal("nan", << >>)

Sub(s, i, j) == IF j < i THEN << >> ELSE SubSeq(s, i, j)
At(s, i) == IF i >= 1 /\ i <= Len(s) THEN s[i] ELSE "EOF"

\* ------------------------------------------------------------------------
\* re.findall(r'[\w\.-]+@[\w\.-]+', text)
\* ------------------------------------------------------------------------
RECURSIVE RunEnd(_, _)
\* index of the last character of the maximal run of EmailClass characters
\* that starts at i (i - 1 when s[i] is not in the class)
RunEnd(s, i) ==
    IF At(s, i) \in EmailClass THEN RunEnd(s, i + 1) ELSE i - 1

\* end index of the match of the pattern that starts at i, 0 when none:
\* a greedy run, "@", a greedy run.  "@" is outside the class, so the
\* first run cannot give characters back.
MatchEnd(s, i) ==
    LET j == RunEnd(s, i) IN
    IF j >= i /\ At(s, j + 1) = "@" /\ At(s, j + 2) \in EmailClass
    THEN RunEnd(s, j + 2)
    ELSE 0

RECURSIVE FindallFrom(_, _)
FindallFrom(s, i) ==
    IF i > Len(s) THEN << >>
    ELSE LET e == MatchEnd(s, i) IN
         IF e > 0 THEN <<PyStr(Sub(s, i, e))>> \o FindallFrom(s, e + 1)
         ELSE FindallFrom(s, i + 1)

ReFindall(s) == PyVal("list", FindallFrom(s, 1))

\* ------------------------------------------------------------------------
\* ast.literal_eval(text), as line 16 calls it.  First ast.parse of the
\* text after lstrip(" \t") in eval mode (SyntaxError when the text is not
\* an expression), then the conversion of the tree (ValueError at the
\* first node that is not a literal, TypeError when a set element or dict
\* key is unhashable).  The grammar is the whole expression grammar of
\* Python restricted to texts over Letters, Digits and the characters
\* @ . + - , space [ ] ' ( ) { } :
\* ------------------------------------------------------------------------
Node(k, t, v, vals) == [k |-> k, t |-> t, v |-> v, vals |-> vals]
\* a node that parses but is no literal: Name, Attribute, BinOp, Call, ...
OtherNode == Node("Other", "", << >>, << >>)
Constant(t, chars) == Node("Constant", t, chars, << >>)

\* ---- the tokens ----
Token(k, v, next) == [k |-> k, v |-> v, next |-> next]
Punctuation == {"(", ")", "[", "]", "{", "}", ",", ":", ".", "+", "-", "@"}
AtomKinds == {"name", "NoneType", "int", "float", "str", "ellipsis"}

RECURSIVE SkipWs(_, _)
SkipWs(s, i) == IF At(s, i) = " " THEN SkipWs(s, i + 1) ELSE i

RECURSIVE DigitRunEnd(_, _)
DigitRunEnd(s, i) == IF At(s, i) \in Digits THEN DigitRunEnd(s, i + 1) ELSE i - 1

RECURSIVE NameEnd(_, _)
NameEnd(s, i) == IF At(s, i) \in WordChars THEN NameEnd(s, i + 1) ELSE i - 1

\* the number token that starts at i: digits, an optional fraction, an
\* optional exponent.  A letter right after the number is an error.
ScanNumber(s, i) ==
    LET d1 == DigitRunEnd(s, i)
        mant == IF d1 >= i
                THEN IF At(s, d1 + 1) = "." THEN DigitRunEnd(s, d1 + 2) ELSE d1
                ELSE DigitRunEnd(s, i + 1)
        k == IF At(s, mant + 2) \in {"+", "-"} THEN mant + 3 ELSE mant + 2
        end == IF At(s, mant + 1) = "e" /\ At(s, k) \in Digits
               THEN DigitRunEnd(s, k)
               ELSE mant
    IN IF At(s, end + 1) \in Letters THEN Token("error", << >>, 0)
       ELSE Token(IF end = d1 THEN "int" ELSE "float", Sub(s, i, end), end + 1)

RECURSIVE FindQuote(_, _)
\* index of the first quote at or after i, 0 when none
FindQuote(s, i) ==
    IF i > Len(s) THEN 0
    ELSE IF s[i] = "'" THEN i ELSE FindQuote(s, i + 1)

RECURSIVE FindTriple(_, _)
\* index of the first run of three quotes at or after i, 0 when none
FindTriple(s, i) ==
    IF i + 2 > Len(s) THEN 0
    ELSE IF s[i] = "'" /\ s[i + 1] = "'" /\ s[i + 2] = "'" THEN i
         ELSE FindTriple(s, i + 1)

\* the string token that starts at the quote at i, triple-quoted or not
ScanString(s, i) ==
    IF At(s, i + 1) = "'" /\ At(s, i + 2) = "'"
    THEN LET k == FindTriple(s, i + 3) IN
         IF k = 0 THEN Token("error", << >>, 0)
         ELSE Token("str", Sub(s, i + 3, k - 1), k + 3)
    ELSE LET k == FindQuote(s, i + 1) IN
         IF k = 0 THEN Token("error", << >>, 0)
         ELSE Token("str", Sub(s, i + 1, k - 1), k + 1)

\* the token that starts at i, which is not a space
NextToken(s, i) ==
    LET c == At(s, i) IN
    CASE c = "EOF" -> Token("EOF", << >>, i)
      [] c \in Letters ->
           LET e == NameEnd(s, i) IN
           Token(IF Sub(s, i, e) = <<"N", "o", "n", "e">> THEN "NoneType" ELSE "name",
                 Sub(s, i, e), e + 1)
      [] c \in Digits \/ (c = "." /\ At(s, i + 1) \in Digits) -> ScanNumber(s, i)
      [] c = "." /\ At(s, i + 1) = "." /\ At(s, i + 2) = "." ->
           Token("ellipsis", Sub(s, i, i + 2), i + 3)
      [] c = "'" -> ScanString(s, i)
      [] c \in Punctuation -> Token(c, <<c>>, i + 1)
      [] OTHER -> Token("error", << >>, 0)

\* adjacent string tokens are one constant
AddToken(acc, t) ==
    IF t.k = "str" /\ Len(acc) > 0 /\ acc[Len(acc)].k = "str"
    THEN [acc EXCEPT ![Len(acc)].v = @ \o t.v]
    ELSE Append(acc, t)

RECURSIVE Tokenize(_, _, _)
\* the tokens of s from i on; the last one is EOF, or error
Tokenize(s, i, acc) ==
    LET t == NextToken(s, SkipWs(s, i)) IN
    IF t.k \in {"EOF", "error"} THEN Append(acc, t)
    ELSE Tokenize(s, t.next, AddToken(acc, t))

\* ---- the parser: a stack of open brackets ----
\* One frame per open bracket, and one for the whole text ("top"):
\*   kind   top, paren, list, brace, call (a call's arguments) or
\*          subscript
\*   elts   the elements (or dict keys) read so far, vals the dict values
\*   comma  a comma was read
\*   mode   of a brace: unknown, set or dict
\*   colons the colons of the current slice
\* and the state of the expression being read:
\*   pos    fresh (nothing read), need (an operand must follow a sign or
\*          operator), have (an operand was read), attr (a name must follow
\*          the dot)
\*   signs  the unary signs before the operand (2 stands for 2 or more),
\*          sign the last of them
\*   binop  a binary operator was read: the expression is a BinOp
\*   node   the operand read
Frame(kind) ==
    [kind |-> kind, elts |-> << >>, vals |-> << >>, comma |-> FALSE,
     mode |-> "unknown", colons |-> 0, pos |-> "fresh", signs |-> 0,
     sign |-> "", binop |-> FALSE, node |-> OtherNode]

\* the node of the expression read in frame f
ExprNode(f) == IF f.binop THEN OtherNode ELSE f.node

\* UnaryOp: a literal only when it is one sign before a Constant number
Operand(f, atom) ==
    IF f.signs = 0 THEN atom
    ELSE IF f.signs = 1 /\ atom.k = "Constant" /\ atom.t \in {"int", "float"}
         THEN Node("UnaryOp", atom.t, <<f.sign>> \o atom.v, << >>)
         ELSE OtherNode

WithOperand(f, atom) ==
    [f EXCEPT !.node = Operand(f, atom), !.pos = "have", !.signs = 0]

NextExpr(f) ==
    [f EXCEPT !.pos = "fresh", !.signs = 0, !.binop = FALSE, !.node = OtherNode]

AtomNode(tok) == IF tok.k = "name" THEN OtherNode ELSE Constant(tok.k, tok.v)

\* a comma may follow
CommaOk(f) ==
    CASE f.kind = "brace" ->
           f.pos = "have" /\ (f.mode # "dict" \/ Len(f.elts) = Len(f.vals) + 1)
      [] f.kind = "subscript" ->
           f.pos = "have" \/ (f.pos = "fresh" /\ f.colons > 0)
      [] OTHER -> f.pos = "have"

AfterComma(f) ==
    CASE f.kind = "brace" /\ f.mode = "dict" ->
           NextExpr([f EXCEPT !.vals = Append(@, ExprNode(f)), !.comma = TRUE])
      [] f.kind = "brace" /\ f.mode # "dict" ->
           NextExpr([f EXCEPT !.elts = Append(@, ExprNode(f)), !.comma = TRUE,
                              !.mode = "set"])
      [] f.kind = "subscript" -> NextExpr([f EXCEPT !.colons = 0, !.comma = TRUE])
      [] OTHER -> NextExpr([f EXCEPT !.elts = Append(@, ExprNode(f)), !.comma = TRUE])

\* a colon may follow: after a dict key, or in a slice
ColonOk(f) ==
    \/ /\ f.kind = "brace"
       /\ f.pos = "have"
       /\ f.mode # "set"
       /\ Len(f.elts) = Len(f.vals)
    \/ /\ f.kind = "subscript"
       /\ f.pos \in {"fresh", "have"}
       /\ f.colons < 2

AfterColon(f) ==
    IF f.kind = "brace"
    THEN NextExpr([f EXCEPT !.elts = Append(@, ExprNode(f)), !.mode = "dict"])
    ELSE NextExpr([f EXCEPT !.colons = @ + 1])

Closer(kind) ==
    CASE kind \in {"paren", "call"} -> ")"
      [] kind \in {"list", "subscript"} -> "]"
      [] kind = "brace" -> "}"
      [] OTHER -> "EOF"

\* the closing bracket may follow
CloseOk(f) ==
    CASE f.kind = "brace" /\ f.mode = "dict" ->
           \/ f.pos = "have" /\ Len(f.elts) = Len(f.vals) + 1
           \/ f.pos = "fresh" /\ Len(f.elts) = Len(f.vals)
      [] f.kind = "brace" /\ f.mode # "dict" -> f.pos \in {"have", "fresh"}
      [] f.kind = "subscript" ->
           f.pos = "have" \/ (f.pos = "fresh" /\ (f.colons > 0 \/ f.comma))
      [] OTHER ->
           \/ f.pos = "have"
           \/ f.pos = "fresh" /\ (f.comma \/ (Len(f.elts) = 0 /\ f.kind # "top"))

\* the elements of the frame, the expression just read included
AllElts(f) == IF f.pos = "have" THEN Append(f.elts, ExprNode(f)) ELSE f.elts

\* the node a closed frame stands for
CloseNode(f) ==
    CASE f.kind \in {"call", "subscript"} -> OtherNode
      [] f.kind = "list" -> Node("List", "", AllElts(f), << >>)
      [] f.kind = "brace" /\ f.mode = "dict" ->
           Node("Dict", "", f.elts,
                IF f.pos = "have" THEN Append(f.vals, ExprNode(f)) ELSE f.vals)
      [] f.kind = "brace" /\ f.mode = "unknown" /\ f.pos = "fresh" ->
           Node("Dict", "", << >>, << >>)
      [] f.kind = "brace" /\ f.mode # "dict"
           /\ ~(f.mode = "unknown" /\ f.pos = "fresh") ->
           Node("Set", "", AllElts(f), << >>)
      [] OTHER ->
           IF f.comma \/ Len(AllElts(f)) = 0
           THEN Node("Tuple", "", AllElts(f), << >>)
           ELSE AllElts(f)[1]

Failed(c) == [c EXCEPT !.status = "error"]
SetTop(c, f) == [c EXCEPT !.stack[Len(c.stack)] = f, !.i = @ + 1]
Push(c, f) == [c EXCEPT !.stack = Append(@, f), !.i = @ + 1]

\* the top frame is closed by token kind k: its node is the operand of the
\* frame below, or the trailer of that frame's operand
Close(c, k) ==
    LET n == Len(c.stack)
        f == c.stack[n]
    IN IF k # Closer(f.kind) \/ ~CloseOk(f) THEN Failed(c)
       ELSE IF f.kind = "top"
            THEN [c EXCEPT !.status = "ok", !.node = CloseNode(f)]
            ELSE [c EXCEPT !.i = @ + 1,
                           !.stack = Append(SubSeq(c.stack, 1, n - 2),
                                            WithOperand(c.stack[n - 1], CloseNode(f)))]

\* one token is read
Step(tok, c) ==
    LET f == c.stack[Len(c.stack)]
        k == tok.k
    IN
    CASE f.pos = "attr" ->
           IF k = "name" THEN SetTop(c, [f EXCEPT !.pos = "have", !.node = OtherNode])
           ELSE Failed(c)
      [] f.pos # "attr" /\ k \in {"+", "-"} ->
           IF f.pos = "have"
           THEN SetTop(c, [f EXCEPT !.binop = TRUE, !.pos = "need"])
           ELSE SetTop(c, [f EXCEPT !.pos = "need", !.sign = k,
                                    !.signs = IF @ = 0 THEN 1 ELSE 2])
      [] f.pos # "attr" /\ k = "@" ->
           IF f.pos = "have"
           THEN SetTop(c, [f EXCEPT !.binop = TRUE, !.pos = "need"])
           ELSE Failed(c)
      [] f.pos # "attr" /\ k \in AtomKinds ->
           IF f.pos = "have" THEN Failed(c)
           ELSE SetTop(c, WithOperand(f, AtomNode(tok)))
      [] f.pos # "attr" /\ k = "(" ->
           Push(c, Frame(IF f.pos = "have" THEN "call" ELSE "paren"))
      [] f.pos # "attr" /\ k = "[" ->
           Push(c, Frame(IF f.pos = "have" THEN "subscript" ELSE "list"))
      [] f.pos # "attr" /\ k = "{" ->
           IF f.pos = "have" THEN Failed(c) ELSE Push(c, Frame("brace"))
      [] f.pos # "attr" /\ k = "." ->
           IF f.pos = "have" THEN SetTop(c, [f EXCEPT !.pos = "attr"])
           ELSE Failed(c)
      [] f.pos # "attr" /\ k = "," ->
           IF CommaOk(f) THEN SetTop(c, AfterComma(f)) ELSE Failed(c)
      [] f.pos # "attr" /\ k = ":" ->
           IF ColonOk(f) THEN SetTop(c, AfterColon(f)) ELSE Failed(c)
      [] f.pos # "attr" /\ k \in {")", "]", "}", "EOF"} -> Close(c, k)
      [] OTHER -> Failed(c)

RECURSIVE Run(_, _)
Run(toks, c) == IF c.status # "run" THEN c ELSE Run(toks, Step(toks[c.i], c))

ParseResult(c) == [ok |-> c.status = "ok", node |-> c.node]

\* ast.parse(text.lstrip(" \t"), mode='eval'): ok = FALSE is SyntaxError
AstParse(s) ==
    ParseResult(Run(Tokenize(s, 1, << >>),
                    [stack |-> <<Frame("top")>>, i |-> 1, status |-> "run",
                     node |-> OtherNode]))

\* ------------------------------------------------------------------------
\* The conversion of the tree (ast.literal_eval's _convert)
\* ------------------------------------------------------------------------
\* the outcome of a call: the value returned, or the exception raised
Returns(val) == [exc |-> "", val |-> val]
Raises(e) == [exc |-> e, val |-> PyVal("exception", << >>)]

ContainerTypes == {"list", "tuple", "set", "dict"}

RECURSIVE Hashable(_)
\* hash(val) succeeds: lists, sets and dicts are unhashable, a tuple is
\* hashable when its elements are
Hashable(val) ==
    CASE val.t \in {"list", "set", "dict"} -> FALSE
      [] val.t = "tuple" -> \A i \in 1..Len(val.v) : Hashable(val.v[i])
      [] OTHER -> TRUE

RECURSIVE PyEq(_, _)
\* a == b for literal values.  Numbers compare by their text: the cell
\* texts of this model write equal numbers the same way.
PyEq(a, b) ==
    /\ a.t = b.t
    /\ Len(a.v) = Len(b.v)
    /\ IF a.t \in ContainerTypes
       THEN \A i \in 1..Len(a.v) : PyEq(a.v[i], b.v[i])
       ELSE a.v = b.v

Contains(seq, x) == \E i \in 1..Len(seq) : PyEq(seq[i], x)

RECURSIVE Convert(_)
RECURSIVE ConvertElts(_, _, _, _)
RECURSIVE ConvertDict(_, _, _, _)

\* the elements are converted left to right; a set hashes each element as
\* it is added, so an unhashable element raises TypeError before the
\* elements after it are converted.  A set keeps the first of equal
\* elements; its iteration order is taken to be insertion order.
ConvertElts(t, elts, i, acc) ==
    IF i > Len(elts) THEN Returns(PyVal(t, acc))
    ELSE LET r == Convert(elts[i]) IN
         IF r.exc # "" THEN r
         ELSE IF t = "set" /\ ~Hashable(r.val) THEN Raises("TypeError")
         ELSE IF t = "set" /\ Contains(acc, r.val)
              THEN ConvertElts(t, elts, i + 1, acc)
              ELSE ConvertElts(t, elts, i + 1, Append(acc, r.val))

\* dict(zip(keys, values)): key, value, insertion, pair by pair
ConvertDict(ks, vs, i, acc) ==
    IF i > Len(ks) THEN Returns(PyVal("dict", acc))
    ELSE LET k == Convert(ks[i]) IN
         IF k.exc # "" THEN k
         ELSE LET v == Convert(vs[i]) IN
              IF v.exc # "" THEN v
              ELSE IF ~Hashable(k.val) THEN Raises("TypeError")
              ELSE IF Contains(acc, k.val)
                   THEN ConvertDict(ks, vs, i + 1, acc)
                   ELSE ConvertDict(ks, vs, i + 1, Append(acc, k.val))

Convert(node) ==
    CASE node.k \in {"Constant", "UnaryOp"} -> Returns(PyVal(node.t, node.v))
      [] node.k = "List" -> ConvertElts("list", node.v, 1, << >>)
      [] node.k = "Tuple" -> ConvertElts("tuple", node.v, 1, << >>)
      [] node.k = "Set" -> ConvertElts("set", node.v, 1, << >>)
      [] node.k = "Dict" -> ConvertDict(node.v, node.vals, 1, << >>)
      [] OTHER -> Raises("ValueError")

ConvertParsed(p) == IF p.ok THEN Convert(p.node) ELSE Raises("SyntaxError")

\* ast.literal_eval(text)
LiteralEval(s) == ConvertParsed(AstParse(s))

\* ------------------------------------------------------------------------
\* parse_email_array (lines 8-20)
\* ------------------------------------------------------------------------
\* pd.isna(x) for a scalar
IsNa(x) == x.t = "nan"

\* line 10
IsEmptyCell(x) == IsNa(x) \/ (x.t = "str" /\ x.v = <<"[", "]">>)

\* line 17: the exceptions the except clause catches
Caught == {"ValueError", "SyntaxError"}

\* lines 16-20: what the try statement makes of the outcome r of
\* ast.literal_eval(text)
TryLiteral(text, r) ==
    IF r.exc \in Caught THEN Returns(ReFindall(text)) ELSE r

\* the outcome of parse_email_array(cell) for a cell that is null or a str
ParseEmailArray(cell) ==
    IF IsEmptyCell(cell) THEN Returns(EmptyList)
    ELSE TryLiteral(cell.v, LiteralEval(cell.v))

\* ==== state machine =====================================================

\* ------------------------------------------------------------------------
\* DataFrames.  A frame is its column labels and its rows; a row carries
\* its index label and one cell per column.  Frames live in the heap, and
\* the program's variables hold references (positions in the heap), so
\* that two names for one object can be told from two objects.
\* ------------------------------------------------------------------------
EmailColumn == "pii.Email_Array"
ParsedColumn == "parsed_emails"
RenamedColumn == "email"

DataFrame(columns, rows) == [columns |-> columns, rows |-> rows]
Row(idx, cells) == [idx |-> idx, cells |-> cells]

\* name in frame.columns
HasColumn(frame, name) == \E i \in 1..Len(frame.columns) : frame.columns[i] = name

\* position of the column labelled name
ColIndex(frame, name) ==
    CHOOSE i \in 1..Len(frame.columns) :
        /\ frame.columns[i] = name
        /\ \A j \in 1..(i - 1) : frame.columns[j] # name

\* frame[name]: the cells of one column, row by row
GetColumn(frame, name) ==
    [r \in 1..Len(frame.rows) |-> frame.rows[r].cells[ColIndex(frame, name)]]

\* frame[name] = values: an existing column is overwritten where it stands,
\* a new one is added after the last column
SetItem(frame, name, values) ==
    IF HasColumn(frame, name)
    THEN DataFrame(frame.columns,
           [r \in 1..Len(frame.rows) |->
              Row(frame.rows[r].idx,
                  [frame.rows[r].cells EXCEPT ![ColIndex(frame, name)] = values[r]])])
    ELSE DataFrame(Append(frame.columns, name),
           [r \in 1..Len(frame.rows) |->
              Row(frame.rows[r].idx, Append(frame.rows[r].cells, values[r]))])

\* the copy left out: a second name for the same object
DfCopy_Alias(h, ref) == [heap |-> h, ref |-> ref]

\* df.copy(): a new object holding the same labels and cells
DfCopy(h, ref) == [heap |-> Append(h, h[ref]), ref |-> Len(h) + 1]

\* a new object for the frame an operation returns
NewFrame(h, frame) == [heap |-> Append(h, frame), ref |-> Len(h) + 1]

\* len(val): defined for str and the containers, TypeError otherwise
HasLen(val) == val.t \in ContainerTypes \cup {"str"}
PyLen(val) == Len(val.v)

RECURSIVE SumSeq(_, _)
SumSeq(s, i) == IF i > Len(s) THEN 0 ELSE s[i] + SumSeq(s, i + 1)

\* line 31: df_copy['parsed_emails'].apply(len).sum()
TotalEmailsBefore(frame) ==
    LET col == GetColumn(frame, ParsedColumn) IN
    SumSeq([r \in 1..Len(col) |-> PyLen(col[r])], 1)

RECURSIVE SelectRows(_, _, _)
SelectRows(frame, name, i) ==
    IF i > Len(frame.rows) THEN << >>
    ELSE (IF PyLen(frame.rows[i].cells[ColIndex(frame, name)]) > 0
          THEN <<frame.rows[i]>> ELSE << >>) \o SelectRows(frame, name, i + 1)

\* line 35: df_copy[df_copy['parsed_emails'].apply(len) > 0]
FilterRows(frame) == DataFrame(frame.columns, SelectRows(frame, ParsedColumn, 1))

\* the rows counted after the filter instead of before it
TotalRowsBefore_AfterFilter(frame) == Len(FilterRows(frame).rows)

\* line 32: len(df_copy)
TotalRowsBefore(frame) == Len(frame.rows)

\* pandas' is_list_like: iterable and neither str nor bytes
IsListLike(val) == val.t \in ContainerTypes

\* the rows one row explodes into: one per element of a list-like cell
\* (one holding NaN when it is empty), the row itself for any other cell;
\* every new row keeps the index label and the other cells of its source
ExplodeRow(row, c) ==
    LET val == row.cells[c] IN
    IF IsListLike(val)
    THEN IF Len(val.v) > 0
         THEN [k \in 1..Len(val.v) |-> Row(row.idx, [row.cells EXCEPT ![c] = val.v[k]])]
         ELSE <<Row(row.idx, [row.cells EXCEPT ![c] = NaN])>>
    ELSE <<row>>

RECURSIVE ExplodeRows(_, _, _)
ExplodeRows(rows, c, i) ==
    IF i > Len(rows) THEN << >>
    ELSE ExplodeRow(rows[i], c) \o ExplodeRows(rows, c, i + 1)

\* line 38: df_with_emails.explode('parsed_emails')
Explode(frame) ==
    DataFrame(frame.columns, ExplodeRows(frame.rows, ColIndex(frame, ParsedColumn), 1))

\* the renamed frame dropped: the column keeps its name
RenameColumns_NotApplied(frame) == frame

\* line 41: rename(columns={'parsed_emails': 'email'})
RenameColumns(frame) ==
    DataFrame([i \in 1..Len(frame.columns) |->
                 IF frame.columns[i] = ParsedColumn THEN RenamedColumn
                 ELSE frame.columns[i]],
              frame.rows)

\* the check left out
HasEmailColumn_Always(frame) == TRUE

\* line 78: 'pii.Email_Array' in df.columns
HasEmailColumn(frame) == HasColumn(frame, EmailColumn)

\* line 28: df_copy['pii.Email_Array'].apply(parse_email_array), the
\* outcome of each call in row order
ApplyParse(frame) ==
    LET col == GetColumn(frame, EmailColumn) IN
    [r \in 1..Len(col) |-> ParseEmailArray(col[r])]

\* ------------------------------------------------------------------------
\* Inputs
\* ------------------------------------------------------------------------
RECURSIVE Join(_, _, _)
\* sep.join(ts[i..])
Join(ts, sep, i) ==
    IF i > Len(ts) THEN << >>
    ELSE IF i = Len(ts) THEN ts[i]
    ELSE ts[i] \o sep \o Join(ts, sep, i + 1)

\* "[t1, t2, ...]"
Bracketed(ts) == <<"[">> \o Join(ts, <<",", " ">>, 1) \o <<"]">>
Quoted(t) == <<"'">> \o t \o <<"'">>

\* a@c.a   c@c.o   a+c@c.a   n-e@c5.o   a.c@e.on
EmailA == <<"a", "@", "c", ".", "a">>
EmailC == <<"c", "@", "c", ".", "o">>
EmailPlus == <<"a", "+", "c", "@", "c", ".", "a">>
EmailHyphen == <<"n", "-", "e", "@", "c", "5", ".", "o">>
EmailDot == <<"a", ".", "c", "@", "e", ".", "o", "n">>
BareTokens == {EmailA, EmailC, EmailPlus, EmailHyphen, EmailDot}

\* the sequences of 1..MaxTokens bare tokens
TokenSeqs == UNION {[1..n -> BareTokens] : n \in 1..MaxTokens}

\* cell texts that are literals
EmptyListText == <<"[", "]">>
QuotedList1 == Bracketed(<<Quoted(EmailA)>>)
QuotedList2 == Bracketed(<<Quoted(EmailA), Quoted(EmailC)>>)
QuotedString == Quoted(EmailA)
TupleText == <<"(">> \o Quoted(EmailA) \o <<",", " ">> \o Quoted(EmailC) \o <<")">>
DictText == <<"{">> \o Quoted(EmailA) \o <<":", " ", "5", "}">>
SetText == <<"{">> \o Quoted(EmailA) \o <<"}">>
NumberText == <<"5">>
NoneText == <<"N", "o", "n", "e">>
EllipsisText == <<".", ".", ".">>
NumberListText == <<"[", "5", ",", " ", "5", "]">>
UnhashableKeyText == <<"{", "[", "]", ":", " ", "5", "}">>
UnhashableElementText == <<"{", "[", "]", "}">>
LiteralTexts ==
    {EmptyListText, QuotedList1, QuotedList2, QuotedString, TupleText, DictText,
     SetText, NumberText, NoneText, EllipsisText, NumberListText,
     UnhashableKeyText, UnhashableElementText,
     <<" ", "[", "]">>, <<"(", ")">>, <<"{", "}">>, <<"'", "'">>}

\* cell texts that are no literals
PlainEmailText == EmailA
TwoEmailsText == <<"n", "o", " ">> \o EmailA \o <<" ", "o", "n", "e", " ">> \o EmailC
NoEmailText == <<"a", "c", "e">>
MalformedText == <<"[">> \o EmailA
ArbitraryTexts ==
    {PlainEmailText, TwoEmailsText, NoEmailText, MalformedText,
     EmailA \o <<"@">> \o EmailC, <<"@">>, <<"a", "@">>}

\* the cells parse_email_array is checked on: null and strings
ParseInputs ==
    {NaN} \cup {PyStr(t) : t \in LiteralTexts \cup ArbitraryTexts}
          \cup {PyStr(Bracketed(ts)) : ts \in TokenSeqs}

\* the cells of the pii.Email_Array column of an uploaded table.  Each is
\* what pd.read_csv yields for a field of a column of dtype object: NaN
\* for an empty field, the field's text otherwise.
TableCells ==
    {NaN} \cup {PyStr(t) : t \in
       {EmptyListText, Bracketed(<<EmailA>>), Bracketed(<<EmailA, EmailC>>),
        Bracketed(<<EmailPlus>>), QuotedList2, QuotedString, TupleText,
        DictText, EllipsisText, UnhashableKeyText, PlainEmailText, NoEmailText}}

\* the header lines of the uploaded files
Headers ==
    {<<"id", EmailColumn, "name">>,
     <<EmailColumn, "id">>,
     <<"id", "name">>,
     <<ParsedColumn, EmailColumn, "id">>,
     <<RenamedColumn, EmailColumn>>}

\* a cell of another column: a value the program never looks into, one
\* per column and source row
Opaque(name, r) == PyVal("opaque", <<name, ToString(r)>>)

\* the frame pd.read_csv builds (line 71): index labels 0..n-1
ReadCsv(h, n, f) ==
    DataFrame(h, [r \in 1..n |->
        Row(r - 1, [c \in 1..Len(h) |->
            IF h[c] = EmailColumn THEN f[r] ELSE Opaque(h[c], r)])])

\* ------------------------------------------------------------------------
\* State
\* ------------------------------------------------------------------------
VARIABLES
    pc,                  \* the line main or process_csv is about to run
    heap,                \* the DataFrame objects
    df,                  \* main: the uploaded frame (reference)
    page,                \* main: the elements rendered on the page
    result,              \* main: df_processed, stats (line 83)
    exc,                 \* the exception that ended the run, "" if none
    df_copy,             \* process_csv locals (references, 0 when unset)
    df_with_emails,
    df_exploded,
    total_emails_before,
    total_rows_before,
    uploaded,            \* history: the frame as read_csv built it
    invoked,             \* history: process_csv was called
    cell,                \* parse_email_array: its argument
    ppc,                 \* parse_email_array: where the call stands
    ret                  \* parse_email_array: the outcome of the call

mainVars == <<pc, heap, df, page, result, exc, df_copy, df_with_emails,
              df_exploded, total_emails_before, total_rows_before,
              uploaded, invoked>>
parseVars == <<cell, ppc, ret>>
vars == <<mainVars, parseVars>>

Stats(before, after, found) ==
    [rows_before |-> before, rows_after |-> after, emails_found |-> found]
NoResult == [ok |-> FALSE, df |-> 0, stats |-> Stats(0, 0, 0)]
NoFrame == DataFrame(<< >>, << >>)

MainIdle ==
    /\ pc = "start"
    /\ heap = << >>
    /\ df = 0
    /\ page = {}
    /\ result = NoResult
    /\ exc = ""
    /\ df_copy = 0
    /\ df_with_emails = 0
    /\ df_exploded = 0
    /\ total_emails_before = 0
    /\ total_rows_before = 0
    /\ uploaded = NoFrame
    /\ invoked = FALSE

ParseIdle ==
    /\ cell = NaN
    /\ ppc = "idle"
    /\ ret = Returns(NaN)

Init == MainIdle /\ ParseIdle

\* ------------------------------------------------------------------------
\* main (lines 52-108)
\* ------------------------------------------------------------------------
\* lines 67-75: a file is uploaded, read and displayed
Upload ==
    /\ pc = "start"
    /\ \E h \in Headers, n \in 0..MaxRows :
         \E f \in [1..n -> TableCells] :
            LET table == ReadCsv(h, n, f) IN
            /\ heap' = <<table>>
            /\ uploaded' = table
    /\ df' = 1
    /\ page' = {"original"}
    /\ pc' = "L78"
    /\ UNCHANGED <<result, exc, df_copy, df_with_emails, df_exploded,
                   total_emails_before, total_rows_before, invoked, parseVars>>

\* lines 78-79: the column is missing, st.error
MissingColumn ==
    /\ pc = "L78"
    /\ ~HasEmailColumn(heap[df])
    /\ page' = page \cup {"error"}
    /\ pc' = "done"
    /\ UNCHANGED <<heap, df, result, exc, df_copy, df_with_emails, df_exploded,
                   total_emails_before, total_rows_before, uploaded, invoked,
                   parseVars>>

\* lines 80-83: process_csv(df) is called
CallProcessCsv ==
    /\ pc = "L78"
    /\ HasEmailColumn(heap[df])
    /\ invoked' = TRUE
    /\ pc' = "L25"
    /\ UNCHANGED <<heap, df, page, result, exc, df_copy, df_with_emails,
                   df_exploded, total_emails_before, total_rows_before,
                   uploaded, parseVars>>

\* lines 86-100: the stats, the processed frame and the download button
ShowResults ==
    /\ pc = "L86"
    /\ page' = page \cup {"success", "processed", "download"}
    /\ pc' = "L103"
    /\ UNCHANGED <<heap, df, result, exc, df_copy, df_with_emails, df_exploded,
                   total_emails_before, total_rows_before, uploaded, invoked,
                   parseVars>>

\* lines 103-108: the email distribution
ShowDetails ==
    /\ pc = "L103"
    /\ page' = page \cup {"details"}
    /\ pc' = "done"
    /\ UNCHANGED <<heap, df, result, exc, df_copy, df_with_emails, df_exploded,
                   total_emails_before, total_rows_before, uploaded, invoked,
                   parseVars>>

\* ------------------------------------------------------------------------
\* process_csv (lines 22-50)
\* ------------------------------------------------------------------------
Raise(e) ==
    /\ exc' = e
    /\ pc' = "raised"

\* line 25
Copy ==
    /\ pc = "L25"
    /\ LET c == DfCopy(heap, df) IN
       /\ heap' = c.heap
       /\ df_copy' = c.ref
    /\ pc' = "L28"
    /\ UNCHANGED <<df, page, result, exc, df_with_emails, df_exploded,
                   total_emails_before, total_rows_before, uploaded, invoked,
                   parseVars>>

\* some call of parse_email_array raises
SomeParseRaises(outs) == \E r \in 1..Len(outs) : outs[r].exc # ""

\* the exception of the first call that raises
FirstParseException(outs) ==
    outs[CHOOSE k \in 1..Len(outs) :
           outs[k].exc # "" /\ \A j \in 1..(k - 1) : outs[j].exc = ""].exc

\* line 28, every call returns
ParseColumn ==
    /\ pc = "L28"
    /\ HasColumn(heap[df_copy], EmailColumn)
    /\ \E outs \in {ApplyParse(heap[df_copy])} :
         /\ ~SomeParseRaises(outs)
         /\ heap' = [heap EXCEPT ![df_copy] =
                       SetItem(@, ParsedColumn, [r \in 1..Len(outs) |-> outs[r].val])]
    /\ pc' = "L31"
    /\ UNCHANGED <<df, page, result, exc, df_copy, df_with_emails, df_exploded,
                   total_emails_before, total_rows_before, uploaded, invoked,
                   parseVars>>

\* line 28, the column lookup or a call raises
ParseColumnRaises ==
    /\ pc = "L28"
    /\ IF ~HasColumn(heap[df_copy], EmailColumn)
       THEN Raise("KeyError")
       ELSE \E outs \in {ApplyParse(heap[df_copy])} :
              /\ SomeParseRaises(outs)
              /\ Raise(FirstParseException(outs))
    /\ UNCHANGED <<heap, df, page, result, df_copy, df_with_emails, df_exploded,
                   total_emails_before, total_rows_before, uploaded, invoked,
                   parseVars>>

\* every parsed value has a length
AllHaveLen(frame) ==
    \A r \in 1..Len(frame.rows) : HasLen(GetColumn(frame, ParsedColumn)[r])

\* lines 31-32
CountBefore ==
    /\ pc = "L31"
    /\ AllHaveLen(heap[df_copy])
    /\ total_emails_before' = TotalEmailsBefore(heap[df_copy])
    /\ total_rows_before' = TotalRowsBefore(heap[df_copy])
    /\ pc' = "L35"
    /\ UNCHANGED <<heap, df, page, result, exc, df_copy, df_with_emails,
                   df_exploded, uploaded, invoked, parseVars>>

\* line 31, len of a value that has none
CountBeforeRaises ==
    /\ pc = "L31"
    /\ ~AllHaveLen(heap[df_copy])
    /\ Raise("TypeError")
    /\ UNCHANGED <<heap, df, page, result, df_copy, df_with_emails, df_exploded,
                   total_emails_before, total_rows_before, uploaded, invoked,
                   parseVars>>

\* line 35
Filter ==
    /\ pc = "L35"
    /\ LET c == NewFrame(heap, FilterRows(heap[df_copy])) IN
       /\ heap' = c.heap
       /\ df_with_emails' = c.ref
    /\ pc' = "L38"
    /\ UNCHANGED <<df, page, result, exc, df_copy, df_exploded,
                   total_emails_before, total_rows_before, uploaded, invoked,
                   parseVars>>

\* line 38
ExplodeStep ==
    /\ pc = "L38"
    /\ LET c == NewFrame(heap, Explode(heap[df_with_emails])) IN
       /\ heap' = c.heap
       /\ df_exploded' = c.ref
    /\ pc' = "L41"
    /\ UNCHANGED <<df, page, result, exc, df_copy, df_with_emails,
                   total_emails_before, total_rows_before, uploaded, invoked,
                   parseVars>>

\* line 41
RenameStep ==
    /\ pc = "L41"
    /\ LET c == NewFrame(heap, RenameColumns(heap[df_exploded])) IN
       /\ heap' = c.heap
       /\ df_exploded' = c.ref
    /\ pc' = "L44"
    /\ UNCHANGED <<df, page, result, exc, df_copy, df_with_emails,
                   total_emails_before, total_rows_before, uploaded, invoked,
                   parseVars>>

\* lines 44-50
Return ==
    /\ pc = "L44"
    /\ result' = [ok |-> TRUE, df |-> df_exploded,
                  stats |-> Stats(total_rows_before,
                                  Len(heap[df_exploded].rows),
                                  total_emails_before)]
    /\ pc' = "L86"
    /\ UNCHANGED <<heap, df, page, exc, df_copy, df_with_emails, df_exploded,
                   total_emails_before, total_rows_before, uploaded, invoked,
                   parseVars>>

Next ==
    \/ Upload
    \/ MissingColumn
    \/ CallProcessCsv
    \/ Copy
    \/ ParseColumn
    \/ ParseColumnRaises
    \/ CountBefore
    \/ CountBeforeRaises
    \/ Filter
    \/ ExplodeStep
    \/ RenameStep
    \/ Return
    \/ ShowResults
    \/ ShowDetails

Spec == Init /\ [][Next]_vars

\* ------------------------------------------------------------------------
\* parse_email_array, step by step (lines 8-20)
\* ------------------------------------------------------------------------
\* the call
PeaCall ==
    /\ ppc = "idle"
    /\ cell' \in ParseInputs
    /\ ppc' = "L10"
    /\ UNCHANGED <<ret, mainVars>>

\* lines 10-11
PeaEmpty ==
    /\ ppc = "L10"
    /\ IsEmptyCell(cell)
    /\ ret' = Returns(EmptyList)
    /\ ppc' = "returned"
    /\ UNCHANGED <<cell, mainVars>>

\* lines 14-16: ast.literal_eval returns, and so does the function
PeaLiteral ==
    /\ ppc = "L10"
    /\ ~IsEmptyCell(cell)
    /\ \E r \in {LiteralEval(cell.v)} :
         /\ r.exc = ""
         /\ ret' = r
    /\ ppc' = "returned"
    /\ UNCHANGED <<cell, mainVars>>

\* lines 16-17: ast.literal_eval raises what the except clause catches
PeaCaught ==
    /\ ppc = "L10"
    /\ ~IsEmptyCell(cell)
    /\ LiteralEval(cell.v).exc \in Caught
    /\ ppc' = "L19"
    /\ UNCHANGED <<cell, ret, mainVars>>

\* lines 16-17: ast.literal_eval raises anything else
PeaRaises ==
    /\ ppc = "L10"
    /\ ~IsEmptyCell(cell)
    /\ \E r \in {LiteralEval(cell.v)} :
         /\ r.exc \notin Caught \cup {""}
         /\ ret' = r
    /\ ppc' = "raised"
    /\ UNCHANGED <<cell, mainVars>>

\* lines 19-20
PeaFallback ==
    /\ ppc = "L19"
    /\ ret' = Returns(ReFindall(cell.v))
    /\ ppc' = "returned"
    /\ UNCHANGED <<cell, mainVars>>

NextParse ==
    \/ PeaCall
    \/ PeaEmpty
    \/ PeaLiteral
    \/ PeaCaught
    \/ PeaRaises
    \/ PeaFallback

SpecParse == Init /\ [][NextParse]_vars

\* ------------------------------------------------------------------------
\* Properties
\* ------------------------------------------------------------------------
\* equality of frames, cell by cell
FrameEq(a, b) ==
    /\ a.columns = b.columns
    /\ Len(a.rows) = Len(b.rows)
    /\ \A r \in 1..Len(a.rows) :
         /\ a.rows[r].idx = b.rows[r].idx
         /\ Len(a.rows[r].cells) = Len(b.rows[r].cells)
         /\ \A c \in 1..Len(a.rows[r].cells) :
              PyEq(a.rows[r].cells[c], b.rows[r].cells[c])

SeqPyEq(a, b) ==
    /\ Len(a) = Len(b)
    /\ \A i \in 1..Len(a) : PyEq(a[i], b[i])

\* the frame process_csv returned
Output == heap[result.df]

\* the column of the output that holds the emails: where the input's
\* parsed_emails column stood, or after the input's last column
OutputEmailIndex ==
    IF HasColumn(uploaded, ParsedColumn) THEN ColIndex(uploaded, ParsedColumn)
    ELSE Len(uploaded.columns) + 1

\* the input cell of source row r (1-based) in the pii.Email_Array column
InputCell(r) == uploaded.rows[r].cells[ColIndex(uploaded, EmailColumn)]

\* what iterating a parsed value yields: the elements of a container, the
\* characters of a str
Elements(val) ==
    IF val.t = "str" THEN [i \in 1..Len(val.v) |-> PyStr(<<val.v[i]>>)]
    ELSE val.v

RECURSIVE ConcatParsed(_)
\* parse_email_array of input rows r.. concatenated
ConcatParsed(r) ==
    IF r > Len(uploaded.rows) THEN << >>
    ELSE Elements(ParseEmailArray(InputCell(r)).val) \o ConcatParsed(r + 1)

IsListOfStr(val) ==
    /\ val.t = "list"
    /\ \A i \in 1..Len(val.v) : val.v[i].t = "str"

\* C1: the stats process_csv returns satisfy rows_after = emails_found,
\* whatever the cells of the pii.Email_Array column hold.
C1_RowsAfterEqualsEmailsFound ==
    result.ok => result.stats.rows_after = result.stats.emails_found

C3_NeverRaises == ppc # "raised"

\* C4: parse_email_array returns a list of strings; a literal that is not
\* a list is not returned.
C4_ReturnsListOfStrings == ppc = "returned" => IsListOfStr(ret.val)

\* C5: for a bracketed, comma-separated list of bare tokens
\* parse_email_array returns exactly the tokens, in order, verbatim.
C5_BareTokensVerbatim ==
    ppc = "returned" =>
        \A ts \in TokenSeqs :
            cell = PyStr(Bracketed(ts)) =>
                SeqPyEq(ret.val.v, [i \in 1..Len(ts) |-> PyStr(ts[i])])

\* C6: every output row holds, in every input column other than
\* pii.Email_Array, the value of its source row.
C6_OtherColumnsPreserved ==
    result.ok =>
        \A k \in 1..Len(Output.rows) :
            \A j \in 1..Len(uploaded.columns) :
                uploaded.columns[j] # EmailColumn =>
                    PyEq(Output.rows[k].cells[j],
                         uploaded.rows[Output.rows[k].idx + 1].cells[j])

\* C7: the email column of the output is the concatenation, in source-row
\* order, of parse_email_array of each input cell.
C7_EmailColumnIsConcatenation ==
    result.ok =>
        SeqPyEq([k \in 1..Len(Output.rows) |-> Output.rows[k].cells[OutputEmailIndex]],
                ConcatParsed(1))

\* C8: when the uploaded table has no pii.Email_Array column, the error is
\* shown, process_csv is never called and no output table, stats or
\* download is produced.
C8_MissingColumnNoProcessing ==
    (df # 0 /\ ~HasColumn(uploaded, EmailColumn)) =>
        /\ ~invoked
        /\ ~result.ok
        /\ exc = ""
        /\ page \cap {"success", "processed", "download", "details"} = {}
        /\ pc \in {"L78", "done"}
        /\ pc = "done" => "error" \in page

C8_Witness ==
    /\ pc = "done"
    /\ ~HasColumn(uploaded, EmailColumn)
    /\ Len(uploaded.rows) > 0
    /\ "error" \in page

\* C9: process_csv leaves the caller's table unchanged, whether it returns
\* or raises: same columns, same rows, same cells.
C9_InputUnchanged ==
    invoked => df = 1 /\ FrameEq(heap[df], uploaded)

C9_Witness ==
    /\ result.ok
    /\ Len(uploaded.rows) > 0
    /\ Len(Output.rows) > Len(uploaded.rows)
    /\ ~FrameEq(heap[df_copy], uploaded)

\* C10: rows_before is the number of input rows, the rows dropped for
\* having no emails included, and emails_found is the sum over all input
\* rows of the length of the row's parsed value.
C10_StatsFromUnfilteredInput ==
    result.ok =>
        /\ result.stats.rows_before = Len(uploaded.rows)
        /\ result.stats.emails_found =
              SumSeq([r \in 1..Len(uploaded.rows) |->
                        PyLen(ParseEmailArray(InputCell(r)).val)], 1)

C10_Witness ==
    /\ result.ok
    /\ result.stats.emails_found > 0
    /\ \E r \in 1..Len(uploaded.rows) : PyLen(ParseEmailArray(InputCell(r)).val) = 0

====
